---- MODULE Spec2Model ----
(***************************************************************************)
(* A model of the academic records registry of College.cpp: the School     *)
(* (registry), its Student, Teacher and Course entities and the per-student *)
(* Observable (observer bus).                                               *)
(*                                                                          *)
(* Every School operation that mutates the registry runs under the School   *)
(* mutex for its whole body (lock_guard at function scope), so each one is  *)
(* one atomic action here.  Student::updateWAM and Student::addObserver     *)
(* are called one at a time in the specifications below, and the observers *)
(* subscribed in them return from update() without throwing (addObserver's  *)
(* last argument); notify() itself is modelled for throwing observers too.  *)
(***************************************************************************)
EXTENDS Integers, Sequences, FiniteSets, TLC

\* ------------------------------------------------------------------ bounds
MaxStudents == 2
MaxCourses == 1
MaxTeachers == 2
MaxObservers == 1
MaxLog == 2
\* subscriptions per student where the order of delivery is followed
MaxSubscribers == 2
\* students the ranking is taken over
MaxRanked == 3

\* ------------------------------------------------------------------ inputs
StudentIds == {"S001", "S002"}
CourseIds == {"CS101", "CS201"}
\* The course ids addCourse registers; CS201 stays an id that does not resolve.
CatalogIds == {"CS101"}
TeacherIds == {"T001"}
ObserverIds == {"o1"}
\* Capacities handed to the Course constructor: int, any sign.
Capacities == {-1, 0, 1, 2}

\* float: a number, or NaN.  Every ordered comparison with NaN is false.
F(n) == [nan |-> FALSE, val |-> n]
NaN == [nan |-> TRUE, val |-> 0]
FLess(a, b) == ~a.nan /\ ~b.nan /\ a.val < b.val
\* Arguments tried for updateWAM(course_id, wam).
Wams == {F(-1), F(0), F(100), F(101), NaN}

\* optional<float>: nullopt is the empty sequence, a value v is <<v>>.
nullopt == <<>>
Some(v) == <<v>>
has_value(o) == Len(o) = 1

VARIABLES students, teachers, courses, log, last

\* The threads that are inside a call: where each one is and its locals (thr),
\* the owner of School::mtx (0: free), the owners of the students'
\* Observable::mtx (a set of <<student position, thread>>), and the value the
\* last query returned (ret).
VARIABLES thr, mtx, bmtx, ret

conc == <<thr, mtx, bmtx, ret>>

vars == <<students, teachers, courses, log, last, thr, mtx, bmtx, ret>>

Threads == {1, 2}

\* A thread that is in no call
IdleThread == [pc |-> "idle"]

\* No call is in progress: every call of the past has returned.
Quiet ==
    /\ thr = [t \in Threads |-> IdleThread]
    /\ mtx = 0
    /\ bmtx = {}
    /\ ret = <<>>

\* ------------------------------------------------------------------ entities
\* Student: id, courses (map course_id -> optional<float>, a function whose
\* domain is the key set), observable.observers (vector<Observer*>).
NewStudent(id) == [id |-> id, courses |-> <<>>, observers |-> <<>>]

\* Course: id, capacity, enrolled_students (set<string>).
NewCourse(id, capacity) == [id |-> id, capacity |-> capacity, enrolled_students |-> {}]

NewTeacher(id) == [id |-> id]

\* map::find(course_id) != end()
HasKey(m, k) == k \in DOMAIN m

\* map::operator[](k) = v
MapPut(m, k, v) == [x \in (DOMAIN m) \cup {k} |-> IF x = k THEN v ELSE m[x]]

\* find_if over a vector by id: the index of the first match, 0 for end().
FindById(vec, id) ==
    IF \E i \in 1..Len(vec) : vec[i].id = id
    THEN CHOOSE i \in 1..Len(vec) :
            vec[i].id = id /\ \A j \in 1..(i - 1) : vec[j].id # id
    ELSE 0

\* ------------------------------------------------------------------ Observable
\* The event one Observer::update call receives.  bus and site are not
\* arguments of update: they record which student's Observable delivered the
\* event and from which call site (Student::enroll or Student::updateWAM).
Event(bus, site, student_id, course_id, old_wam, new_wam) ==
    [bus |-> bus, site |-> site, student_id |-> student_id,
     course_id |-> course_id, old_wam |-> old_wam, new_wam |-> new_wam]

\* The observers notify() reaches: the loop stops at the first observer whose
\* update throws (the exception leaves the loop).
Reached(observers) ==
    IF \E i \in 1..Len(observers) : observers[i].throws
    THEN SubSeq(observers, 1,
                CHOOSE i \in 1..Len(observers) :
                    observers[i].throws /\ \A j \in 1..(i - 1) : ~observers[j].throws)
    ELSE observers

RECURSIVE Deliver(_, _, _)
Deliver(lg, reached, ev) ==
    IF reached = <<>> THEN lg
    ELSE Deliver([lg EXCEPT ![Head(reached).oid] = Append(@, ev)], Tail(reached), ev)

\* Observable::notify: the log after the event went to the observers in order.
notify(lg, observers, ev) == Deliver(lg, Reached(observers), ev)

\* notify() leaves by exception
Throws(observers) == \E i \in 1..Len(observers) : observers[i].throws

\* ------------------------------------------------------------------ Course
\* enrolled_students.size() < capacity compares size_t with int: capacity is
\* converted to size_t, so a negative capacity becomes 2^64 + capacity, larger
\* than any size.
\* Faulty variant of the comparison: <= for <.
SizeLessCapacity_OffByOne(size, capacity) ==
    IF capacity < 0 THEN TRUE ELSE size <= capacity

SizeLessCapacity(size, capacity) ==
    IF capacity < 0 THEN TRUE ELSE size < capacity

\* Course::enrollStudent: the result and the course afterwards.
Course_enrollStudent(c, student_id) ==
    IF SizeLessCapacity(Cardinality(c.enrolled_students), c.capacity)
    THEN [ok |-> TRUE,
          course |-> [c EXCEPT !.enrolled_students = @ \cup {student_id}]]
    ELSE [ok |-> FALSE, course |-> c]

\* ------------------------------------------------------------------ Student
\* Faulty variant: no find(), every enroll stores nullopt and notifies.
Student_enroll_inserts_Always(s, course_id) == TRUE

\* Student::enroll inserts only an absent key.
Student_enroll_inserts(s, course_id) == ~HasKey(s.courses, course_id)

Student_enroll(s, course_id) ==
    IF Student_enroll_inserts(s, course_id)
    THEN [s EXCEPT !.courses = MapPut(@, course_id, nullopt)]
    ELSE s

\* Faulty variant of the range check: the lower bound is not checked.
InvalidWAM_NoLowerBound(wam) == FLess(F(100), wam)

\* Student::updateWAM's range check
InvalidWAM(wam) == FLess(wam, F(0)) \/ FLess(F(100), wam)

\* Faulty variant: no find(), so operator[] inserts the key.
UpdateStores_NoFind(s, course_id, wam) == ~InvalidWAM(wam)

\* Student::updateWAM stores only under an existing key
UpdateStores(s, course_id, wam) == ~InvalidWAM(wam) /\ HasKey(s.courses, course_id)

\* Faulty variant: old_wam is read after the store.
OldWam_AfterStore(s, course_id, wam) == Some(wam)

\* auto old_wam = courses[course_id], read before the store (operator[] gives a
\* default-constructed nullopt for a key that is not there)
OldWam(s, course_id, wam) ==
    IF HasKey(s.courses, course_id) THEN s.courses[course_id] ELSE nullopt

Student_updateWAM(s, course_id, wam) ==
    IF UpdateStores(s, course_id, wam)
    THEN [s EXCEPT !.courses = MapPut(@, course_id, Some(wam))]
    ELSE s

\* ------------------------------------------------------------------ calls
\* The last call: which operation, its arguments (the student by id for the
\* School's operations, by position in the registry for the Student's own), what
\* it returned and what it wrote to cerr.  tick alternates so that a call that
\* changes nothing is still a step.
NoArgs == [student_id |-> "", idx |-> 0, course_id |-> "", wam |-> F(0)]

NoCall == [op |-> "none", args |-> NoArgs, result |-> "void", diag |-> "", tick |-> 0]

Call(op, args, result, diag) ==
    [op |-> op, args |-> args, result |-> result, diag |-> diag, tick |-> 1 - last.tick]

Init ==
    /\ students = <<>>
    /\ teachers = <<>>
    /\ courses = <<>>
    /\ log = [o \in ObserverIds |-> <<>>]
    /\ last = NoCall
    /\ Quiet

\* School::addStudent
addStudent(id) ==
    /\ Len(students) < MaxStudents
    /\ students' = Append(students, NewStudent(id))
    /\ last' = Call("addStudent", NoArgs, "void", "")
    /\ UNCHANGED <<teachers, courses, log>>
    /\ UNCHANGED conc

\* School::addTeacher
addTeacher(id) ==
    /\ Len(teachers) < MaxTeachers
    /\ teachers' = Append(teachers, NewTeacher(id))
    /\ last' = Call("addTeacher", NoArgs, "void", "")
    /\ UNCHANGED <<students, courses, log>>
    /\ UNCHANGED conc

\* School::addCourse
addCourse(id, capacity) ==
    /\ Len(courses) < MaxCourses
    /\ courses' = Append(courses, NewCourse(id, capacity))
    /\ last' = Call("addCourse", NoArgs, "void", "")
    /\ UNCHANGED <<students, teachers, log>>
    /\ UNCHANGED conc

\* An observer's log is full: the calls that can emit an event are not made any
\* more, which keeps the logs finite.
LogFull == \E o \in DOMAIN log : Len(log[o]) >= MaxLog

\* Faulty variant: the failed lookup is not told apart from a full course.
EnrollOutcome_NoLookupCheck(si, ci, ok, thrown) ==
    IF ~ok THEN [result |-> "false", diag |-> "Course is full!"]
    ELSE IF thrown THEN [result |-> "exception", diag |-> ""]
    ELSE [result |-> "true", diag |-> ""]

\* School::enrollStudentInCourse: what it returns for the outcome of the lookups
\* and of Course::enrollStudent.
EnrollOutcome(si, ci, ok, thrown) ==
    IF si = 0 \/ ci = 0 THEN [result |-> "false", diag |-> "Student or course not found!"]
    ELSE IF ~ok THEN [result |-> "false", diag |-> "Course is full!"]
    ELSE IF thrown THEN [result |-> "exception", diag |-> ""]
    ELSE [result |-> "true", diag |-> ""]

enrollStudentInCourse(student_id, course_id) ==
    LET si == FindById(students, student_id)
        ci == FindById(courses, course_id)
    IN  /\ ~LogFull
        /\ UNCHANGED conc
        /\ IF si = 0 \/ ci = 0
           THEN /\ last' = Call("enrollStudentInCourse",
                             [NoArgs EXCEPT !.student_id = student_id, !.course_id = course_id],
                                EnrollOutcome(si, ci, FALSE, FALSE).result,
                                EnrollOutcome(si, ci, FALSE, FALSE).diag)
                /\ UNCHANGED <<students, teachers, courses, log>>
           ELSE LET r == Course_enrollStudent(courses[ci], student_id)
                    s == students[si]
                    emits == r.ok /\ Student_enroll_inserts(s, course_id)
                    thrown == emits /\ Throws(s.observers)
                    out == EnrollOutcome(si, ci, r.ok, thrown)
                IN  /\ courses' = [courses EXCEPT ![ci] = r.course]
                    /\ students' = IF r.ok
                                   THEN [students EXCEPT ![si] = Student_enroll(s, course_id)]
                                   ELSE students
                    /\ log' = IF emits
                              THEN notify(log, s.observers,
                                          Event(si, "enroll", s.id, course_id, nullopt, F(0)))
                              ELSE log
                    /\ last' = Call("enrollStudentInCourse",
                             [NoArgs EXCEPT !.student_id = student_id, !.course_id = course_id],
                                    out.result, out.diag)
                    /\ UNCHANGED teachers

\* Student::updateWAM on the i-th registered student
updateWAM(i, course_id, wam) ==
    LET s == students[i]
        stores == UpdateStores(s, course_id, wam)
        thrown == stores /\ Throws(s.observers)
    IN  /\ ~LogFull
        /\ students' = [students EXCEPT ![i] = Student_updateWAM(s, course_id, wam)]
        /\ log' = IF stores
                  THEN notify(log, s.observers,
                              Event(i, "updateWAM", s.id, course_id,
                                    OldWam(s, course_id, wam), wam))
                  ELSE log
        /\ last' = Call("updateWAM", [NoArgs EXCEPT !.idx = i, !.course_id = course_id, !.wam = wam],
                        IF thrown THEN "exception" ELSE "void",
                        IF InvalidWAM(wam)
                        THEN "Invalid WAM score. Must be between 0 and 100." ELSE "")
        /\ UNCHANGED <<teachers, courses>>
        /\ UNCHANGED conc

\* Student::addObserver on the i-th registered student
addObserver(i, oid, throws) ==
    /\ Len(students[i].observers) < MaxObservers
    /\ students' = [students EXCEPT ![i].observers =
                        Append(@, [oid |-> oid, throws |-> throws])]
    /\ last' = Call("addObserver", NoArgs, "void", "")
    /\ UNCHANGED <<teachers, courses, log>>
    /\ UNCHANGED conc

Next ==
    \/ \E id \in StudentIds : addStudent(id)
    \/ \E id \in CatalogIds, capacity \in Capacities : addCourse(id, capacity)
    \/ \E sid \in StudentIds, cid \in CourseIds : enrollStudentInCourse(sid, cid)
    \/ \E i \in 1..Len(students), oid \in ObserverIds : addObserver(i, oid, FALSE)

\* Registration, subscription and enrollment, from the empty registry.
Spec == Init /\ [][Next]_vars

\* A registry as main() builds it before the first enrollment: the students and
\* the courses are registered, nobody is enrolled yet.
InitScore ==
    /\ students = <<NewStudent("S001")>>
    /\ teachers = <<>>
    /\ courses = <<NewCourse("CS101", 2), NewCourse("CS201", 1)>>
    /\ log = [o \in ObserverIds |-> <<>>]
    /\ last = NoCall
    /\ Quiet

NextScore ==
    \/ \E sid \in StudentIds, cid \in CourseIds : enrollStudentInCourse(sid, cid)
    \/ \E i \in 1..Len(students), cid \in CourseIds, wam \in Wams :
          updateWAM(i, cid, wam)
    \/ \E i \in 1..Len(students), oid \in ObserverIds : addObserver(i, oid, FALSE)

\* Enrollment, score updates and subscription on a populated registry.
SpecScore == InitScore /\ [][NextScore]_vars

\* Registration alone: the three collections of the registry.
NextReg ==
    \/ \E id \in StudentIds : addStudent(id)
    \/ \E id \in TeacherIds : addTeacher(id)
    \/ \E id \in CourseIds, capacity \in Capacities : addCourse(id, capacity)

SpecReg == Init /\ [][NextReg]_vars

\* ================================================================== threads
\* The same operations statement by statement, for calls that overlap: a thread
\* is at one place of one call (thr[t].pc) and the steps of different threads
\* interleave.  std::map and std::set are not synchronized by themselves; the
\* steps below are the reads and writes of the statements in program order.

\* Observers whose update() calls back into the registry: it calls
\* School::enrollStudentInCourse for CallbackStudent, a student no registry holds.
ReentrantObservers == {"r1"}
CallbackStudent == "S999"

\* Observable::mtx of the student is free
BusFree(bus) == \A t \in Threads : <<bus, t>> \notin bmtx

\* The call of the thread returns: the thread is idle again.
Return(t, result, diag) ==
    /\ thr' = [thr EXCEPT ![t] = IdleThread]
    /\ last' = Call(thr[t].op, thr[t].args, result, diag)

\* lock_guard's destructor of School::enrollStudentInCourse releases School::mtx
\* when the call is left, by return or by exception; Student::updateWAM holds
\* no School::mtx.
SchoolMtxAfter(t) == IF mtx = t THEN 0 ELSE mtx

\* School::enrollStudentInCourse, lines 266-277: lock, the two lookups, the
\* early return.
T_enroll(t, student_id, course_id) ==
    LET si == FindById(students, student_id)
        ci == FindById(courses, course_id)
        args == [NoArgs EXCEPT !.student_id = student_id, !.course_id = course_id]
    IN  /\ thr[t].pc = "idle"
        /\ ~LogFull
        /\ mtx = 0
        /\ IF si = 0 \/ ci = 0
           THEN /\ last' = Call("enrollStudentInCourse", args,
                                EnrollOutcome(si, ci, FALSE, FALSE).result,
                                EnrollOutcome(si, ci, FALSE, FALSE).diag)
                /\ UNCHANGED <<thr, mtx>>
           ELSE /\ thr' = [thr EXCEPT ![t] =
                            [pc |-> "e_course", op |-> "enrollStudentInCourse",
                             args |-> args, si |-> si, ci |-> ci]]
                /\ mtx' = t
                /\ UNCHANGED last
        /\ UNCHANGED <<students, teachers, courses, log, bmtx, ret>>

\* line 279: Course::enrollStudent, and lines 284-285 when it refuses.
T_enroll_course(t) ==
    /\ thr[t].pc = "e_course"
    /\ LET ci == thr[t].ci
           r == Course_enrollStudent(courses[ci], thr[t].args.student_id)
       IN  /\ courses' = [courses EXCEPT ![ci] = r.course]
           /\ IF r.ok
              THEN /\ thr' = [thr EXCEPT ![t].pc = "e_student"]
                   /\ UNCHANGED <<last, mtx>>
              ELSE /\ Return(t, EnrollOutcome(thr[t].si, ci, FALSE, FALSE).result,
                             EnrollOutcome(thr[t].si, ci, FALSE, FALSE).diag)
                   /\ mtx' = SchoolMtxAfter(t)
    /\ UNCHANGED <<students, teachers, log, bmtx, ret>>

\* line 280: Student::enroll up to its call of notify (lines 136-137), and
\* line 281 when the key was there.
T_enroll_student(t) ==
    /\ thr[t].pc = "e_student"
    /\ LET si == thr[t].si
           s == students[si]
           c == thr[t].args.course_id
       IN  IF Student_enroll_inserts(s, c)
           THEN /\ students' = [students EXCEPT ![si] = Student_enroll(s, c)]
                /\ thr' = [thr EXCEPT ![t] =
                            [@ EXCEPT !.pc = "n_lock"] @@
                            [bus |-> si, ev |-> Event(si, "enroll", s.id, c, nullopt, F(0))]]
                /\ UNCHANGED <<last, mtx>>
           ELSE /\ Return(t, EnrollOutcome(si, thr[t].ci, TRUE, FALSE).result,
                          EnrollOutcome(si, thr[t].ci, TRUE, FALSE).diag)
                /\ mtx' = SchoolMtxAfter(t)
                /\ UNCHANGED students
    /\ UNCHANGED <<teachers, courses, log, bmtx, ret>>

\* Student::updateWAM, lines 143-149: the range check, find, the read of
\* old_wam.
T_update(t, i, course_id, wam) ==
    LET s == students[i]
        args == [NoArgs EXCEPT !.idx = i, !.course_id = course_id, !.wam = wam]
    IN  /\ thr[t].pc = "idle"
        /\ ~LogFull
        /\ IF UpdateStores(s, course_id, wam)
           THEN /\ thr' = [thr EXCEPT ![t] =
                            [pc |-> "u_write", op |-> "updateWAM", args |-> args,
                             old_wam |-> OldWam(s, course_id, wam)]]
                /\ UNCHANGED last
           ELSE /\ last' = Call("updateWAM", args, "void",
                                IF InvalidWAM(wam)
                                THEN "Invalid WAM score. Must be between 0 and 100."
                                ELSE "")
                /\ UNCHANGED thr
        /\ UNCHANGED <<students, teachers, courses, log, mtx, bmtx, ret>>

\* line 150: courses[course_id] = wam
T_update_write(t) ==
    /\ thr[t].pc = "u_write"
    /\ LET i == thr[t].args.idx
           s == students[i]
           c == thr[t].args.course_id
       IN  /\ students' = [students EXCEPT ![i].courses = MapPut(@, c, Some(thr[t].args.wam))]
           /\ thr' = [thr EXCEPT ![t] =
                        [@ EXCEPT !.pc = "n_lock"] @@
                        [bus |-> i,
                         ev |-> Event(i, "updateWAM", s.id, c, thr[t].old_wam,
                                      thr[t].args.wam)]]
    /\ UNCHANGED <<teachers, courses, log, last, mtx, bmtx, ret>>

\* Observable::notify, line 117: lock_guard on the student's Observable::mtx
T_notify_lock(t) ==
    /\ thr[t].pc = "n_lock"
    /\ BusFree(thr[t].bus)
    /\ bmtx' = bmtx \cup {<<thr[t].bus, t>>}
    /\ thr' = [thr EXCEPT ![t] = [@ EXCEPT !.pc = "n_loop"] @@ [k |-> 1]]
    /\ UNCHANGED <<students, teachers, courses, log, last, mtx, ret>>

\* Faulty variant: the loop skips every other position.
NextPosition_Skip(k) == k + 2

\* The position the loop of notify goes to after position k
NextPosition(k) == k + 1

\* What the call returns once notify has returned
Returned(op) == IF op = "enrollStudentInCourse" THEN "true" ELSE "void"

\* lines 118-120: one iteration of the loop, observer->update(...).  An update
\* that throws ends notify and the call (both lock_guards are released on the
\* way out); an update that calls back into the registry waits for School::mtx.
T_notify_deliver(t) ==
    /\ thr[t].pc = "n_loop"
    /\ thr[t].k <= Len(students[thr[t].bus].observers)
    /\ LET o == students[thr[t].bus].observers[thr[t].k]
       IN  /\ log' = [log EXCEPT ![o.oid] = Append(@, thr[t].ev)]
           /\ IF o.throws
              THEN /\ Return(t, "exception", "")
                   /\ bmtx' = bmtx \ {<<thr[t].bus, t>>}
                   /\ mtx' = SchoolMtxAfter(t)
              ELSE /\ thr' = [thr EXCEPT ![t].pc =
                                IF o.oid \in ReentrantObservers THEN "cb_lock" ELSE "n_loop",
                              ![t].k = NextPosition(@)]
                   /\ UNCHANGED <<last, bmtx, mtx>>
    /\ UNCHANGED <<students, teachers, courses, ret>>

\* The callback's School::enrollStudentInCourse(CallbackStudent, course): it
\* takes School::mtx (it waits while any thread holds it, its own included:
\* std::mutex is not recursive), finds no student, returns false and releases.
T_callback(t) ==
    /\ thr[t].pc = "cb_lock"
    /\ mtx = 0
    /\ FindById(students, CallbackStudent) = 0
    /\ thr' = [thr EXCEPT ![t].pc = "n_loop"]
    /\ UNCHANGED <<students, teachers, courses, log, last, mtx, bmtx, ret>>

\* line 121 and the return of the call: the loop is over, the lock_guards are
\* released.
T_notify_done(t) ==
    /\ thr[t].pc = "n_loop"
    /\ thr[t].k > Len(students[thr[t].bus].observers)
    /\ Return(t, Returned(thr[t].op), "")
    /\ bmtx' = bmtx \ {<<thr[t].bus, t>>}
    /\ mtx' = SchoolMtxAfter(t)
    /\ UNCHANGED <<students, teachers, courses, log, ret>>

\* Student::addObserver: Observable::addObserver takes the student's
\* Observable::mtx for the push_back.
T_subscribe(i, oid, throws) ==
    /\ BusFree(i)
    /\ Len(students[i].observers) < MaxSubscribers
    /\ students' = [students EXCEPT ![i].observers =
                        Append(@, [oid |-> oid, throws |-> throws])]
    /\ last' = Call("addObserver", NoArgs, "void", "")
    /\ UNCHANGED <<teachers, courses, log>>
    /\ UNCHANGED conc

\* A reader: Student::getCourses() of the i-th student and
\* Course::getEnrolledStudents() of the j-th course, neither of which takes a
\* lock; what it saw of the link between the two.
T_read(i, j) ==
    /\ ret' = [student |-> i, course |-> j,
               in_map |-> courses[j].id \in DOMAIN students[i].courses,
               in_set |-> students[i].id \in courses[j].enrolled_students]
    /\ UNCHANGED <<students, teachers, courses, log, last, thr, mtx, bmtx>>

\* A student the observers of ObserverIds subscribed to n times in all before
\* any enrollment, in the order of the ids.
RECURSIVE Subscribed(_, _, _)
Subscribed(s, oids, n) ==
    IF n = 0 \/ oids = {} THEN s
    ELSE LET o == CHOOSE x \in oids : TRUE
         IN  Subscribed([s EXCEPT !.observers = Append(@, [oid |-> o, throws |-> FALSE])],
                        oids, n - 1)

\* Two students are registered, the second possibly under the id of the first,
\* and the observers have subscribed; no course is registered yet.
InitEv ==
    /\ \E id2 \in StudentIds, n1, n2 \in 0..MaxObservers :
          students = <<Subscribed(NewStudent("S001"), ObserverIds, n1),
                       Subscribed(NewStudent(id2), ObserverIds, n2)>>
    /\ teachers = <<>>
    /\ courses = <<>>
    /\ log = [o \in ObserverIds |-> <<>>]
    /\ last = NoCall
    /\ Quiet

NextEv ==
    \/ \E id \in CatalogIds, capacity \in Capacities : addCourse(id, capacity)
    \/ \E sid \in StudentIds, cid \in CourseIds : enrollStudentInCourse(sid, cid)

\* Enrollment seen by observers that subscribed before the first enroll call.
SpecEv == InitEv /\ [][NextEv]_vars

\* The observers of the delivery specifications
BusObservers == {"o1", "o2"}

\* The scores the overlapping updates write
BusWams == {F(0), F(100)}

\* One registered student and one registered course, no subscription yet.
InitBus ==
    /\ students = <<NewStudent("S001")>>
    /\ teachers = <<>>
    /\ courses = <<NewCourse("CS101", 2)>>
    /\ log = [o \in BusObservers |-> <<>>]
    /\ last = NoCall
    /\ Quiet

\* The statements of Observable::notify
NotifySteps(t) ==
    \/ T_notify_lock(t)
    \/ T_notify_deliver(t)
    \/ T_notify_done(t)

\* The steps of the calls of one thread
Steps(t) ==
    \/ T_enroll_course(t)
    \/ T_enroll_student(t)
    \/ T_update_write(t)
    \/ NotifySteps(t)

\* main() alone: one call at a time, subscriptions between the calls.
NextBus(throwing) ==
    \/ \E sid \in StudentIds, cid \in CatalogIds : T_enroll(1, sid, cid)
    \/ \E i \in 1..Len(students), cid \in CatalogIds, wam \in BusWams :
          T_update(1, i, cid, wam)
    \/ Steps(1)
    \/ \E i \in 1..Len(students), oid \in BusObservers, throws \in throwing :
          thr[1].pc = "idle" /\ T_subscribe(i, oid, throws)

NextDeliver == NextBus({FALSE})

\* Delivery to observers whose update() returns.
SpecBus == InitBus /\ [][NextDeliver]_vars

NextFail == NextBus(BOOLEAN)

\* Delivery to observers whose update() may throw.
SpecFail == InitBus /\ [][NextFail]_vars

\* S001 is enrolled in CS101, no score yet, and one observer has subscribed:
\* the registry after main()'s first enrollment.
InitConc ==
    /\ students = <<[Student_enroll(NewStudent("S001"), "CS101") EXCEPT
                        !.observers = <<[oid |-> "o1", throws |-> FALSE]>>]>>
    /\ teachers = <<>>
    /\ courses = <<Course_enrollStudent(NewCourse("CS101", 2), "S001").course>>
    /\ log = [o \in ObserverIds |-> <<>>]
    /\ last = NoCall
    /\ Quiet

\* Threads of a caller that call updateWAM on the same student at the same
\* time (main() itself calls it from one thread).
NextConc ==
    \E t \in Threads :
        \/ \E i \in 1..Len(students), cid \in CatalogIds, wam \in BusWams :
              T_update(t, i, cid, wam)
        \/ T_update_write(t)
        \/ NotifySteps(t)

SpecConc == InitConc /\ [][NextConc]_vars

\* Two registered students, the first with a subscribed observer, and one
\* registered course; nobody is enrolled yet.
InitLink ==
    /\ students = <<Subscribed(NewStudent("S001"), ObserverIds, 1), NewStudent("S002")>>
    /\ teachers = <<>>
    /\ courses = <<NewCourse("CS101", 2)>>
    /\ log = [o \in ObserverIds |-> <<>>]
    /\ last = NoCall
    /\ Quiet

\* Threads that enroll while another thread reads the two sides of a link.
NextLink ==
    \/ \E t \in Threads :
          \/ \E sid \in StudentIds, cid \in CatalogIds : T_enroll(t, sid, cid)
          \/ T_enroll_course(t)
          \/ T_enroll_student(t)
          \/ NotifySteps(t)
    \/ \E i \in 1..Len(students), j \in 1..Len(courses) : T_read(i, j)

SpecLink == InitLink /\ [][NextLink]_vars

\* One registered student and two registered courses; the observers that call
\* back into the registry subscribe later.
InitLock ==
    /\ students = <<NewStudent("S001")>>
    /\ teachers = <<>>
    /\ courses = <<NewCourse("CS101", 2), NewCourse("CS201", 1)>>
    /\ log = [o \in ReentrantObservers |-> <<>>]
    /\ last = NoCall
    /\ Quiet

\* main() enrolls and updates while observers call back into the registry.
NextLock ==
    \/ \E sid \in StudentIds, cid \in CourseIds : T_enroll(1, sid, cid)
    \/ \E i \in 1..Len(students), cid \in CourseIds, wam \in BusWams :
          T_update(1, i, cid, wam)
    \/ Steps(1)
    \/ T_callback(1)
    \/ \E i \in 1..Len(students), oid \in ReentrantObservers :
          thr[1].pc = "idle" /\ T_subscribe(i, oid, FALSE)

SpecLock == InitLock /\ [][NextLock]_vars

\* ================================================================== queries
\* A float that is the quotient of two small integers is kept as the pair: the
\* value is the float nearest to num / den.  Float division is correctly
\* rounded, so for the numerators and denominators of the model two quotients
\* are equal, or ordered, as floats exactly when they are as fractions.
Quotient(num, den) == [nan |-> FALSE, num |-> num, den |-> den]

\* Student::overallWAM, lines 156-161: the values of the slots that hold one
Present(s) == {c \in DOMAIN s.courses : s.courses[c] # nullopt}

\* accumulate(wams.begin(), wams.end(), 0.0f) over the scores of the courses cs
RECURSIVE Accumulate(_, _)
Accumulate(s, cs) ==
    IF cs = {} THEN 0
    ELSE LET c == CHOOSE x \in cs : TRUE
         IN  s.courses[c][1].val + Accumulate(s, cs \ {c})

\* Faulty variant: the mean is taken over every slot, with or without a score.
Divisor_AllSlots(s) == Cardinality(DOMAIN s.courses)

\* wams.size()
Divisor(s) == Cardinality(Present(s))

\* Student::overallWAM: 0.0f without a score, else the sum over the count; a
\* NaN among the scores makes the sum NaN.
Student_overallWAM(s) ==
    IF Present(s) = {} THEN Quotient(0, 1)
    ELSE IF \E c \in Present(s) : s.courses[c][1].nan
         THEN [nan |-> TRUE, num |-> 0, den |-> 1]
         ELSE Quotient(Accumulate(s, Present(s)), Divisor(s))

\* a.second > b.second of the comparator (false when either is NaN)
Greater(a, b) ==
    /\ ~a.second.nan /\ ~b.second.nan
    /\ a.second.num * b.second.den > b.second.num * a.second.den

\* School::getTopPerformers, lines 297-300: one pair per student in the order
\* of the vector; first is the name of the who-th student.
Performers(studs) ==
    [i \in 1..Len(studs) |-> [who |-> i, second |-> Student_overallWAM(studs[i])]]

\* lines 302-305: std::sort with the comparator.  std::sort is not stable: the
\* result is some arrangement in which no pair is followed by a greater one,
\* and which one is up to the library (libstdc++ keeps equal pairs in place up
\* to 16 elements and moves them beyond).
Sorted(p) ==
    {[k \in 1..Len(p) |-> p[f[k]]] : f \in
        {g \in Permutations(1..Len(p)) :
            \A a, b \in 1..Len(p) : a < b => ~Greater(p[g[b]], p[g[a]])}}

\* line 307, n > performers.size(): the int is converted to size_t, so a
\* negative n is a value above every size.
NExceedsSize(n, size) == n < 0 \/ n > size

\* lines 307-308
Truncated(q, n) == SubSeq(q, 1, IF NExceedsSize(n, Len(q)) THEN Len(q) ELSE n)

\* School::getTopPerformers(n)
getTopPerformers(n) ==
    /\ \E q \in Sorted(Performers(students)) :
          ret' = [n |-> n, performers |-> Truncated(q, n)]
    /\ last' = Call("getTopPerformers", NoArgs, "vector", "")
    /\ UNCHANGED <<students, teachers, courses, log, thr, mtx, bmtx>>

\* Student::overallWAM() of the i-th student; ret keeps the student it was
\* called on.
overallWAM(i) ==
    /\ ret' = [s |-> students[i], wam |-> Student_overallWAM(students[i])]
    /\ last' = Call("overallWAM", [NoArgs EXCEPT !.idx = i], "float", "")
    /\ UNCHANGED <<students, teachers, courses, log, thr, mtx, bmtx>>

\* The string a unit of generateAllStudentReports builds (lines 317-332), by
\* what it is made of: the student's id, the overall WAM and the course slots.
ReportOf(s) == [id |-> s.id, wam |-> Student_overallWAM(s), courses |-> s.courses]

\* Faulty variant: the futures are taken from the last to the first.
JoinPosition_Reverse(k, n) == n + 1 - k

\* line 337, for (auto& f : futures): the future the k-th iteration waits for,
\* of n
JoinPosition(k, n) == k

\* The buffer of the students vector that holds len elements, counted from the
\* empty vector: students.push_back (line 252) moves the elements to a new
\* buffer and frees the old one when size() = capacity(), and libstdc++ doubles
\* the capacity (1, 2, 4, 8), so the buffer changes at the 1st, 2nd, 3rd and
\* 5th push_back.
Buffer(len) == IF len = 0 THEN 0 ELSE IF len = 1 THEN 1 ELSE IF len = 2 THEN 2
               ELSE IF len <= 4 THEN 3 ELSE 4

\* The process after a unit dereferenced a freed element of the vector
Crashed == [pc |-> "crashed"]

\* School::generateAllStudentReports, lines 312-335: one async unit per
\* student is started and its future pushed, in the order of the vector.  The
\* lambda captures [&student], a reference to the element of the vector, that
\* is into the buffer the vector has at that time.
R_spawn(t) ==
    /\ thr[t].pc = "idle"
    /\ thr' = [thr EXCEPT ![t] =
                [pc |-> "r_join", op |-> "generateAllStudentReports", args |-> NoArgs,
                 futures |-> [i \in 1..Len(students) |-> <<>>],
                 reports |-> <<>>, k |-> 1, buffer |-> Buffer(Len(students))]]
    /\ UNCHANGED <<students, teachers, courses, log, last, mtx, bmtx, ret>>

\* The references the units of the call hold point into a buffer the vector
\* has freed since.
Dangling(t) == thr[t].buffer # Buffer(Len(students))

\* lines 316-333: the unit of the i-th student runs to its end on its own
\* thread, whenever it is scheduled, and makes its future ready.
R_unit(t, i) ==
    /\ thr[t].pc = "r_join"
    /\ ~Dangling(t)
    /\ i \in DOMAIN thr[t].futures
    /\ thr[t].futures[i] = <<>>
    /\ thr' = [thr EXCEPT ![t].futures[i] = <<ReportOf(students[i])>>]
    /\ UNCHANGED <<students, teachers, courses, log, last, mtx, bmtx, ret>>

\* The same unit when its reference dangles: student->getName() reads freed
\* memory, which is undefined.  The unit finds the old shared_ptr still in
\* place and reports on its student, or it dereferences what is there now and
\* the process is terminated (segmentation fault), no call of any thread
\* returning.
R_unit_dangling(t, i) ==
    /\ thr[t].pc = "r_join"
    /\ Dangling(t)
    /\ i \in DOMAIN thr[t].futures
    /\ thr[t].futures[i] = <<>>
    /\ \/ thr' = [thr EXCEPT ![t].futures[i] = <<ReportOf(students[i])>>]
       \/ thr' = [u \in Threads |-> Crashed]
    /\ UNCHANGED <<students, teachers, courses, log, last, mtx, bmtx, ret>>

\* School::addStudent called while other calls are under way: lock_guard on
\* School::mtx, push_back, unlock.
T_addStudent(t, id) ==
    /\ thr[t].pc = "idle"
    /\ mtx = 0
    /\ addStudent(id)

\* lines 337-339: f.get() waits until the unit is done and its string is
\* pushed onto reports.
R_get(t) ==
    /\ thr[t].pc = "r_join"
    /\ thr[t].k <= Len(thr[t].futures)
    /\ LET j == JoinPosition(thr[t].k, Len(thr[t].futures))
       IN  /\ thr[t].futures[j] # <<>>
           /\ thr' = [thr EXCEPT ![t].reports = Append(@, thr[t].futures[j][1]),
                                 ![t].k = @ + 1]
    /\ UNCHANGED <<students, teachers, courses, log, last, mtx, bmtx, ret>>

\* line 341: return reports
R_return(t) ==
    /\ thr[t].pc = "r_join"
    /\ thr[t].k > Len(thr[t].futures)
    /\ ret' = thr[t].reports
    /\ thr' = [thr EXCEPT ![t] = IdleThread]
    /\ last' = Call("generateAllStudentReports", NoArgs, "vector", "")
    /\ UNCHANGED <<students, teachers, courses, log, mtx, bmtx>>

\* The scores of the query specifications
RankScores == {F(0), F(80), F(100)}

\* The ids of the ranked students
RankedIds == <<"S001", "S002", "S003", "S004", "S005">>

\* The i-th ranked student: enrolled in CS101, with the score or none
Ranked(i, slot) ==
    [Student_enroll(NewStudent(RankedIds[i]), "CS101") EXCEPT !.courses["CS101"] = slot]

\* MaxRanked students are registered and enrolled in one course, each with a
\* score or none.
InitTop ==
    /\ \E slots \in [1..MaxRanked -> {nullopt} \cup {Some(w) : w \in RankScores}] :
          students = [i \in 1..MaxRanked |-> Ranked(i, slots[i])]
    /\ teachers = <<>>
    /\ courses = <<[NewCourse("CS101", MaxRanked) EXCEPT
                      !.enrolled_students = {RankedIds[i] : i \in 1..MaxRanked}]>>
    /\ log = [o \in ObserverIds |-> <<>>]
    /\ last = NoCall
    /\ Quiet

NextTop == \E n \in (0 - 1)..(MaxRanked + 1) : getTopPerformers(n)

\* The ranking query on registries with scores.
SpecTop == InitTop /\ [][NextTop]_vars

\* main() calls generateAllStudentReports; the units complete in any order.
NextReport ==
    \/ R_spawn(1)
    \/ \E i \in 1..Len(students) : R_unit(1, i)
    \/ R_get(1)
    \/ R_return(1)

SpecReport == InitTop /\ [][NextReport]_vars

NextWam ==
    \/ \E sid \in StudentIds, cid \in CourseIds : enrollStudentInCourse(sid, cid)
    \/ \E i \in 1..Len(students), cid \in CourseIds, wam \in RankScores :
          updateWAM(i, cid, wam)
    \/ \E i \in 1..Len(students) : overallWAM(i)

\* The mean of a student's scores as enrollment and updates change them.
SpecWam == InitScore /\ [][NextWam]_vars

\* S001 is registered, with a subscribed observer, and so is CS101.
InitRun ==
    /\ students = <<Subscribed(NewStudent("S001"), ObserverIds, 1)>>
    /\ teachers = <<>>
    /\ courses = <<NewCourse("CS101", 2)>>
    /\ log = [o \in ObserverIds |-> <<>>]
    /\ last = NoCall
    /\ Quiet

\* One thread generates the reports while the other registers, enrolls and
\* updates; the observers return and call nothing back.
NextRun ==
    \/ R_spawn(1)
    \/ \E i \in 1..Len(students) : R_unit(1, i)
    \/ \E i \in 1..Len(students) : R_unit_dangling(1, i)
    \/ R_get(1)
    \/ R_return(1)
    \/ \E id \in StudentIds : T_addStudent(2, id)
    \/ \E sid \in StudentIds, cid \in CatalogIds : T_enroll(2, sid, cid)
    \/ \E i \in 1..Len(students), cid \in CatalogIds, wam \in BusWams :
          T_update(2, i, cid, wam)
    \/ Steps(2)

SpecRun == InitRun /\ [][NextRun]_vars

\* ================================================================== claims
Keys(s) == DOMAIN s.courses

\* Nothing an entity or an observer holds changes in the step.
NothingChanges == students' = students /\ courses' = courses /\ log' = log

\* The step is a call of op (where every step is one whole call).
Calls(op) == last'.op = op

\* No two entries of the vector carry the same id.
UniqueIds(vec) == \A i, j \in 1..Len(vec) : vec[i].id = vec[j].id => i = j

\* Some entry of the vector carries the id.
HasId(vec, id) == \E i \in 1..Len(vec) : vec[i].id = id

\* A score in the closed interval [0, 100]
InRange(wam) == ~wam.nan /\ 0 <= wam.val /\ wam.val <= 100

\* A score below 0 or above 100
OutOfRange(wam) == ~wam.nan /\ (wam.val < 0 \/ wam.val > 100)

\* ------------------------------------------------------------------ C1
\* C1: for every registered student S and registered course C, C's id is a key
\* of S's enrollment map if and only if S's id is in C's enrolled-student set.
C1_MutualConsistency ==
    \A i \in 1..Len(students), j \in 1..Len(courses) :
        (courses[j].id \in Keys(students[i]))
            <=> (students[i].id \in courses[j].enrolled_students)

\* ------------------------------------------------------------------ C2
\* C2: every course's enrolled-student set has at most capacity members, for
\* every capacity the Course constructor takes.
C2_CapacityBound ==
    \A j \in 1..Len(courses) :
        Cardinality(courses[j].enrolled_students) <= courses[j].capacity

\* ------------------------------------------------------------------ C3
\* The link (student_id, course_id) exists: an earlier enroll returned true.
Linked(student_id, course_id) ==
    LET si == FindById(students, student_id)
        ci == FindById(courses, course_id)
    IN  /\ si # 0
        /\ ci # 0
        /\ course_id \in Keys(students[si])
        /\ student_id \in courses[ci].enrolled_students

\* C3: an enroll that repeats an existing link returns true, changes no
\* enrollment map and no enrolled set and delivers no event, whatever the
\* course's occupancy.
C3_EnrollIdempotent ==
    [][(Calls("enrollStudentInCourse")
            /\ Linked(last'.args.student_id, last'.args.course_id))
        => (last'.result = "true" /\ NothingChanges)]_vars

\* ------------------------------------------------------------------ C4
\* The call enrolls a registered student who is not in the registered course
\* yet, and the course has capacity k >= 1.
NewcomerCall ==
    LET si == FindById(students, last'.args.student_id)
        ci == FindById(courses, last'.args.course_id)
    IN  /\ Calls("enrollStudentInCourse")
        /\ si # 0
        /\ ci # 0
        /\ courses[ci].capacity >= 1
        /\ last'.args.student_id \notin courses[ci].enrolled_students

\* C4: into a course of capacity k >= 1, the enroll of a student not yet in it
\* returns true while fewer than k are enrolled and adds the student; with k
\* enrolled it returns false and changes nothing.
C4_MonotoneCapacity ==
    [][NewcomerCall =>
        LET ci == FindById(courses, last'.args.course_id)
            c == courses[ci]
        IN  IF Cardinality(c.enrolled_students) < c.capacity
            THEN /\ last'.result = "true"
                 /\ courses'[ci].enrolled_students =
                        c.enrolled_students \cup {last'.args.student_id}
            ELSE /\ Cardinality(c.enrolled_students) = c.capacity
                 /\ last'.result = "false"
                 /\ NothingChanges]_vars

\* The (k+1)-th student was just turned away from a full course of capacity k.
C4_Witness ==
    LET si == FindById(students, last.args.student_id)
        ci == FindById(courses, last.args.course_id)
    IN  /\ last.op = "enrollStudentInCourse"
        /\ last.result = "false"
        /\ si # 0
        /\ ci # 0
        /\ courses[ci].capacity >= 1
        /\ Cardinality(courses[ci].enrolled_students) = courses[ci].capacity
        /\ last.args.student_id \notin courses[ci].enrolled_students
        /\ \E o \in ObserverIds : log[o] # <<>>

\* ------------------------------------------------------------------ C5
\* The call is an enroll whose student_id or course_id does not resolve.
UnresolvedCall ==
    /\ Calls("enrollStudentInCourse")
    /\ \/ ~HasId(students, last'.args.student_id)
       \/ ~HasId(courses, last'.args.course_id)

\* C5 as stated: an enroll with an id that does not resolve ends in the error
\* outcome NotFound, which is not the boolean false, and changes nothing.
C5_NotFoundOutcome ==
    [][UnresolvedCall => (last'.result = "NotFound" /\ NothingChanges)]_vars

\* C5 as amended: an enroll with an id that does not resolve returns the
\* boolean false, as for a full course, with the diagnostic "Student or course
\* not found!" on cerr, and changes no enrollment map, no enrolled set and no
\* observer's events.
C5_NotFoundReturnsFalse ==
    [][UnresolvedCall =>
        /\ last'.result = "false"
        /\ last'.diag = "Student or course not found!"
        /\ NothingChanges]_vars

\* An enroll of a registered student into a course id that does not resolve has
\* just returned, in a registry that holds a link and a delivered event.
C5_Witness ==
    /\ last.op = "enrollStudentInCourse"
    /\ last.result = "false"
    /\ HasId(students, last.args.student_id)
    /\ ~HasId(courses, last.args.course_id)
    /\ \E j \in 1..Len(courses) : courses[j].enrolled_students # {}
    /\ \E o \in ObserverIds : log[o] # <<>>

\* ------------------------------------------------------------------ C6
\* C6: a registration with an id already present in its collection fails with
\* DuplicateId and does not append, so ids stay unique within each collection.
C6_UniqueIds ==
    [][/\ \A id \in StudentIds : (addStudent(id) /\ HasId(students, id))
              => (last'.result = "DuplicateId" /\ students' = students)
       /\ \A id \in TeacherIds : (addTeacher(id) /\ HasId(teachers, id))
              => (last'.result = "DuplicateId" /\ teachers' = teachers)
       /\ \A id \in CourseIds, capacity \in Capacities :
              (addCourse(id, capacity) /\ HasId(courses, id))
              => (last'.result = "DuplicateId" /\ courses' = courses)
       /\ UniqueIds(students') /\ UniqueIds(teachers') /\ UniqueIds(courses')]_vars

\* ------------------------------------------------------------------ C7
\* The call is updateWAM with a score below 0 or above 100.
OutOfRangeCall == Calls("updateWAM") /\ OutOfRange(last'.args.wam)

\* C7 as stated: an update_score with score < 0 or score > 100 ends in the
\* error outcome OutOfRange for the caller, changes no enrollment map and
\* delivers no event.
C7_OutOfRangeOutcome ==
    [][OutOfRangeCall => (last'.result = "OutOfRange" /\ NothingChanges)]_vars

\* C7 as amended: an update_score with score < 0 or score > 100 returns
\* normally (void) after writing "Invalid WAM score. Must be between 0 and
\* 100." to cerr, changes no enrollment map and delivers no event.
C7_OutOfRangeIgnored ==
    [][OutOfRangeCall =>
        /\ last'.result = "void"
        /\ last'.diag = "Invalid WAM score. Must be between 0 and 100."
        /\ NothingChanges]_vars

\* An out-of-range score was just refused for a course whose slot holds a
\* score, on a student with a subscribed observer.
C7_Witness ==
    /\ last.op = "updateWAM"
    /\ OutOfRange(last.args.wam)
    /\ last.args.course_id \in Keys(students[last.args.idx])
    /\ has_value(students[last.args.idx].courses[last.args.course_id])
    /\ students[last.args.idx].observers # <<>>

\* ------------------------------------------------------------------ C8
\* C8: every score slot is either "no grade yet" or a value in [0, 100], and
\* "no grade yet" is not the value 0.
C8_ScoreRange ==
    /\ nullopt # Some(F(0))
    /\ \A i \in 1..Len(students) : \A c \in Keys(students[i]) :
          \/ students[i].courses[c] = nullopt
          \/ /\ has_value(students[i].courses[c])
             /\ InRange(students[i].courses[c][1])

\* ------------------------------------------------------------------ C9
\* The call is updateWAM with a score in [0, 100] for a course that is not a
\* key of the student's enrollment map.
NotEnrolledCall ==
    /\ Calls("updateWAM")
    /\ InRange(last'.args.wam)
    /\ last'.args.course_id \notin Keys(students[last'.args.idx])

\* C9: an update_score for a course the student is not enrolled in adds no key,
\* changes no slot and no enrolled set and delivers no event.
C9_NotEnrolledNoOp ==
    [][NotEnrolledCall =>
        /\ Keys(students'[last'.args.idx]) = Keys(students[last'.args.idx])
        /\ NothingChanges]_vars

\* updateWAM was just called with a score in [0, 100] for a course the student
\* is not enrolled in, the student being enrolled elsewhere and observed.
C9_Witness ==
    /\ last.op = "updateWAM"
    /\ InRange(last.args.wam)
    /\ last.args.course_id \notin Keys(students[last.args.idx])
    /\ Keys(students[last.args.idx]) # {}
    /\ students[last.args.idx].observers # <<>>

\* ------------------------------------------------------------------ C10
\* The call is updateWAM with a score in [0, 100] for an enrolled course.
AcceptedCall ==
    /\ Calls("updateWAM")
    /\ InRange(last'.args.wam)
    /\ last'.args.course_id \in Keys(students[last'.args.idx])

\* How many times the observer is subscribed to the student
Subscriptions(s, o) == Cardinality({k \in 1..Len(s.observers) : s.observers[k].oid = o})

\* The update events of the log for the bus and course, in order
UpdatesOf(lg, bus, course_id) ==
    SelectSeq(lg, LAMBDA e : e.site = "updateWAM" /\ e.bus = bus /\ e.course_id = course_id)

\* C10: an accepted update_score sets the course's slot to the score, leaves
\* every other slot, the key set, the other students and the courses alone, and
\* emits one event (student_id, course_id, old, new): every observer receives it
\* once per subscription to that student, old is the slot's value just before
\* the call, new is the score, and old equals the new value of the update event
\* the observer received before it for that student and course.
C10_UpdateEvent ==
    [][AcceptedCall =>
        LET i == last'.args.idx
            c == last'.args.course_id
            s == students[i]
            ev == [bus |-> i, site |-> "updateWAM", student_id |-> s.id,
                   course_id |-> c, old_wam |-> s.courses[c], new_wam |-> last'.args.wam]
        IN  /\ Keys(students'[i]) = Keys(s)
            /\ students'[i].courses[c] = Some(last'.args.wam)
            /\ \A d \in Keys(s) \ {c} : students'[i].courses[d] = s.courses[d]
            /\ students'[i].observers = s.observers
            /\ \A j \in (1..Len(students)) \ {i} : students'[j] = students[j]
            /\ Len(students') = Len(students)
            /\ courses' = courses
            /\ \A o \in ObserverIds :
                  /\ log'[o] = log[o] \o [k \in 1..Subscriptions(s, o) |-> ev]
                  /\ LET before == UpdatesOf(log[o], i, c)
                     IN  (Subscriptions(s, o) > 0 /\ before # <<>>)
                            => ev.old_wam = Some(before[Len(before)].new_wam)]_vars

\* An observer holds two update events of one student and course, the second
\* just delivered.
C10_Witness ==
    /\ last.op = "updateWAM"
    /\ InRange(last.args.wam)
    /\ \E o \in ObserverIds :
          LET ups == UpdatesOf(log[o], last.args.idx, last.args.course_id)
          IN  /\ Len(ups) >= 2
              /\ ups[Len(ups)].new_wam = last.args.wam
              /\ ups[Len(ups)].new_wam # ups[Len(ups) - 1].new_wam

\* ------------------------------------------------------------------ C11
\* The enrollment events the log holds from the student's bus for the course
EnrollEventsOf(lg, bus, course_id) ==
    SelectSeq(lg, LAMBDA e : e.site = "enroll" /\ e.bus = bus /\ e.course_id = course_id)

\* C11: an observer subscribed to a student before the first enroll call has
\* received, for each course, exactly one enrollment event (student id, course
\* id, old = none, new = 0.0) per subscription if the student's enrollment map
\* has the course and none otherwise; so a call that returns false or repeats
\* a link has emitted nothing.
C11_EnrollmentEvents ==
    \A o \in ObserverIds, i \in 1..Len(students), c \in CourseIds :
        EnrollEventsOf(log[o], i, c) =
            IF c \in Keys(students[i])
            THEN [k \in 1..Subscriptions(students[i], o) |->
                    [bus |-> i, site |-> "enroll", student_id |-> students[i].id,
                     course_id |-> c, old_wam |-> nullopt, new_wam |-> F(0)]]
            ELSE <<>>

\* An observer holds the event of a link, and the last call, an enroll of an
\* observed student, returned false.
C11_Witness ==
    /\ last.op = "enrollStudentInCourse"
    /\ last.result = "false"
    /\ HasId(courses, last.args.course_id)
    /\ \E i \in 1..Len(students) :
          /\ students[i].id = last.args.student_id
          /\ students[i].observers # <<>>
    /\ \E o \in ObserverIds : log[o] # <<>>

\* ------------------------------------------------------------------ C12
\* The thread is in the loop of notify, with the event it emitted.
Delivering(t) == thr[t].pc = "n_loop"

\* The observers subscribed to the bus the thread notifies
BusOf(t) == students[thr[t].bus].observers

\* C12: every event a student's bus emits is delivered once for every
\* subscription to that student at the time of the event, in the order of
\* subscription, all before the enroll or updateWAM call that emitted it
\* returns, and a subscription made after the event receives nothing of it
\* (observers whose update() returns; an observer that subscribed twice is
\* two subscriptions).  As steps: an observer's trace grows only by the event
\* of a thread in notify, at the subscription the loop is at, which starts at
\* the first and moves on by one; the list of subscriptions does not change
\* while the loop runs; the call returns from the position past the last.
C12_ObserverDelivery ==
    [][\A t \in Threads :
          /\ (~Delivering(t) /\ thr'[t].pc = "n_loop") => thr'[t].k = 1
          /\ Delivering(t) /\ log' # log =>
                /\ thr[t].k <= Len(BusOf(t))
                /\ log' = [log EXCEPT ![BusOf(t)[thr[t].k].oid] = Append(@, thr[t].ev)]
                /\ thr'[t].pc = "n_loop" /\ thr'[t].k = thr[t].k + 1
          /\ Delivering(t) =>
                /\ students'[thr[t].bus].observers = BusOf(t)
                /\ (thr'[t].pc = "n_loop" /\ thr'[t].k # thr[t].k) => log' # log
                /\ thr'[t].pc # "n_loop" =>
                       /\ thr'[t].pc = "idle"
                       /\ thr[t].k = Len(BusOf(t)) + 1
                       /\ log' = log
          /\ (\A u \in Threads : ~Delivering(u)) => log' = log
      ]_vars

\* A call has returned after it delivered its event to two different observers,
\* each of which holds it as its latest event.
C12_Witness ==
    /\ last.op \in {"enrollStudentInCourse", "updateWAM"}
    /\ thr[1].pc = "idle"
    /\ Len(students[1].observers) = 2
    /\ students[1].observers[1].oid # students[1].observers[2].oid
    /\ \A o \in BusObservers : log[o] # <<>>
    /\ \E e \in {log[o][Len(log[o])] : o \in BusObservers} :
          \A o \in BusObservers : log[o][Len(log[o])] = e /\ Len(log[o]) = 1

\* ------------------------------------------------------------------ C13
\* The number of subscriptions update() has been called on when the step ends
Attempted(t) == IF log' # log THEN thr[t].k ELSE thr[t].k - 1

\* C13: when an observer fails on an event, every other subscription to the
\* student still receives the event, those after the failing one included: the
\* call leaves notify only after update() was called on every subscription.
C13_FailureIsolation ==
    [][\A t \in Threads :
          Delivering(t) /\ thr'[t].pc = "idle" => Attempted(t) = Len(BusOf(t))
      ]_vars

\* ------------------------------------------------------------------ C14
\* No call is under way.
Quiescent == \A t \in Threads : thr[t].pc = "idle"

\* C14: when threads call updateWAM on the same student at the same time, the
\* observers receive the events in the order of the writes to the slot: once
\* no call is under way, the new value of the last update event an observer
\* received for a student and course is the score stored in the slot, and the
\* old value of each of these events is the new value of the one before it.
C14_EventOrder ==
    Quiescent =>
        \A o \in DOMAIN log, i \in 1..Len(students), c \in CourseIds :
            LET u == UpdatesOf(log[o], i, c)
            IN  u # <<>> =>
                   /\ c \in Keys(students[i])
                   /\ students[i].courses[c] = Some(u[Len(u)].new_wam)
                   /\ \A k \in 2..Len(u) : u[k].old_wam = Some(u[k - 1].new_wam)

\* ------------------------------------------------------------------ C15
\* C15: a thread that reads a student's enrollment map and a course's
\* enrolled-student set while another thread enrolls that pair never sees the
\* student's id in the set without the course id in the map, or the reverse.
C15_ReaderAtomicity == ret # <<>> => (ret.in_set <=> ret.in_map)

\* ------------------------------------------------------------------ C16
\* The result of a getTopPerformers call
Ranking == ret.performers

\* The two overall WAMs are the same value.
SameWam(a, b) == a.num * b.den = b.num * a.den

\* The overall WAM a is strictly above b.
Above(a, b) == a.num * b.den > b.num * a.den

\* C16: for n >= 1 the result of top_performers(n) is sorted by overall WAM
\* non-increasingly, each pair is the (name, overall WAM) of a distinct
\* registered student, no omitted student has a strictly higher WAM than a
\* returned one, and among students of equal WAM the one registered earlier
\* comes first and is preferred at the cut.
C16_TopOrder ==
    (ret # <<>> /\ ret.n >= 1) =>
        LET m == Len(Ranking)
            wam(i) == Student_overallWAM(students[i])
            returned == {Ranking[k].who : k \in 1..m}
        IN  /\ \A k \in 1..m :
                  /\ Ranking[k].who \in 1..Len(students)
                  /\ Ranking[k].second = wam(Ranking[k].who)
            /\ \A a, b \in 1..m :
                  a < b => /\ Ranking[a].who # Ranking[b].who
                           /\ ~Above(Ranking[b].second, Ranking[a].second)
                           /\ SameWam(Ranking[a].second, Ranking[b].second)
                                 => Ranking[a].who < Ranking[b].who
            /\ \A i \in 1..Len(students) \ returned, j \in returned :
                  /\ ~Above(wam(i), wam(j))
                  /\ SameWam(wam(i), wam(j)) => j < i

\* ------------------------------------------------------------------ C17
\* The smaller of two numbers
Min(a, b) == IF a < b THEN a ELSE b

\* C17: the result of top_performers(n) over m students has min(n, m) entries
\* when n >= 1 (all m when n > m) and none when n <= 0, negative n included.
C17_TopLength ==
    ret # <<>> =>
        Len(ret.performers) = IF ret.n <= 0 THEN 0 ELSE Min(ret.n, Len(students))

\* ------------------------------------------------------------------ C19
\* The score in the slot, 0 for a slot without one or a course without a slot
ScoreOrZero(s, c) ==
    IF c \in DOMAIN s.courses /\ s.courses[c] # nullopt THEN s.courses[c][1].val ELSE 0

\* The sum of the scores the student holds
RECURSIVE Total(_, _)
Total(s, cs) ==
    IF cs = {} THEN 0
    ELSE LET c == CHOOSE x \in cs : TRUE IN ScoreOrZero(s, c) + Total(s, cs \ {c})

\* The number of slots that hold a score
Scored(s) == Cardinality({c \in DOMAIN s.courses : s.courses[c] # nullopt})

\* C19: overall_wam() is 0 when the enrollment map is empty or holds only
\* no-score slots, and else the sum of the present scores over their number,
\* no-score slots counting neither in the sum nor in the divisor; a student
\* whose only present scores are 0 has the overall WAM of one with no score.
C19_OverallWam ==
    (ret # <<>>) =>
        /\ ~ret.wam.nan
        /\ ret.wam.den > 0
        /\ IF Scored(ret.s) = 0
           THEN ret.wam.num = 0
           ELSE ret.wam.num * Scored(ret.s) = Total(ret.s, CourseIds) * ret.wam.den
        /\ Total(ret.s, CourseIds) = 0 => SameWam(ret.wam, Quotient(0, 1))

\* overall_wam() was taken of a student with a score above 0 in one course and
\* no score yet in the other.
C19_Witness ==
    /\ ret # <<>>
    /\ last.op = "overallWAM"
    /\ DOMAIN ret.s.courses = CourseIds
    /\ Scored(ret.s) = 1
    /\ Total(ret.s, CourseIds) > 0
    /\ ret.wam.num = Total(ret.s, CourseIds) * ret.wam.den

\* ------------------------------------------------------------------ C18
\* The step returns from generateAllStudentReports.
ReportsReturn(t) == thr[t].pc = "r_join" /\ thr'[t].pc = "idle"

\* C18: generate_reports() returns one report per registered student, the i-th
\* about the i-th registered student, in whatever order the units complete; it
\* returns only after every unit it started has completed; it changes no
\* entity.
C18_ReportOrder ==
    [][/\ students' = students /\ teachers' = teachers /\ courses' = courses
       /\ \A t \in Threads :
             ReportsReturn(t) =>
                /\ \A i \in DOMAIN thr[t].futures : thr[t].futures[i] # <<>>
                /\ Len(ret') = Len(students)
                /\ \A i \in 1..Len(students) :
                      /\ ret'[i].id = students[i].id
                      /\ ret'[i].courses = students[i].courses
                      /\ SameWam(ret'[i].wam, Student_overallWAM(students[i]))
      ]_vars

\* The call has returned the reports of students whose reports differ.
C18_Witness ==
    /\ last.op = "generateAllStudentReports"
    /\ thr[1].pc = "idle"
    /\ Len(ret) = Len(students)
    /\ Len(ret) >= 2
    /\ \A i, j \in 1..Len(ret) : i # j => ret[i] # ret[j]
    /\ ret[1].courses # ret[2].courses

\* ------------------------------------------------------------------ C20
\* The thread is inside Student::enroll, called by enrollStudentInCourse: at
\* its notify, or in a callback of the enrollment event.
InStudentEnroll(t) ==
    /\ thr[t].pc \in {"n_lock", "n_loop", "cb_lock"}
    /\ thr[t].op = "enrollStudentInCourse"

\* C20: during enroll the registry mutex is released before the registry calls
\* into the student: Student::enroll and the observer callbacks of the
\* enrollment event never run while the calling thread holds the registry
\* mutex, so that a callback that calls a registry write operation is not left
\* waiting for a mutex its own thread holds.
C20_LockScope == \A t \in Threads : InStudentEnroll(t) => mtx # t

\* A callback of an enrollment event waits for the registry mutex that its own
\* thread holds.
C20_SelfBlocked == \E t \in Threads : thr[t].pc = "cb_lock" /\ mtx = t

\* ------------------------------------------------------------------ C21
\* The thread holds the Observable::mtx of some student.
HoldsBus(t) == \E e \in bmtx : e[2] = t

\* The thread is about to take School::mtx, or waits for it.
AtSchoolLock(t) == thr[t].pc \in {"idle", "cb_lock"}

\* C21: with observers that return and call nothing back, every one of the
\* concurrently running register, enroll, update_score, subscribe and
\* generate_reports calls returns: no call ends where it cannot return; the
\* two mutexes are taken only in the order registry, then bus, and no thread
\* holds a bus mutex while it takes or waits for the registry mutex.
C21_DeadlockFreedom ==
    \A t \in Threads :
        /\ thr[t].pc # "crashed"
        /\ HoldsBus(t) => ~AtSchoolLock(t)
        /\ HoldsBus(t) /\ thr[t].op = "enrollStudentInCourse" => mtx = t

\* The part of C21 about the mutexes alone, in the calls that are under way
C21_LockOrder ==
    \A t \in Threads :
        thr[t].pc # "crashed" =>
            /\ HoldsBus(t) => ~AtSchoolLock(t)
            /\ HoldsBus(t) /\ thr[t].op = "enrollStudentInCourse" => mtx = t

====
